---- MODULE Spec2Model ----
(***************************************************************************)
(* zimbra-tracker: the tracking run (track_refs.py) that exports the refs  *)
(* of the tracked repositories into the tracking worktree and commits a    *)
(* snapshot to the ledger (the "tracking" branch), the add-event operation *)
(* (add_event.py) and the report renderer (generate_changes.py) that walks *)
(* the ledger newest to oldest and diffs every entry against its parent.   *)
(*                                                                         *)
(* Ref names and file names are sequences of one-character strings, so the *)
(* percent-encoding of refname_utils.py is computed, not assumed.  JSON    *)
(* documents are modelled by the value they hold (json.dump followed by    *)
(* json.loads of a value the tracker wrote gives the value back); a list   *)
(* is a sequence, an object a function.                                    *)
(***************************************************************************)
EXTENDS Integers, Sequences, FiniteSets, TLC

(***************************************************************************)
(* Bounds of the model.                                                    *)
(***************************************************************************)
\* number of changes the environment makes to the tracked-repo list and refs
MaxChanges == 2
\* number of entries of the ledger (the "Initial tracking branch" commit included)
MaxLedger == 4
\* number of add-event operations
MaxEvents == 2
\* number of files and commit-log lines of the ledger that get damaged
MaxDamage == 2
\* length of the ref names the encoding of file names is tried on
MaxNameLen == 3

(***************************************************************************)
(* Program constants.                                                      *)
(***************************************************************************)
\* commits_json[-5:] : the window of commits the report lists and compares
WindowSize == 5
\* line.split(sep, 4) gives at most 5 parts; fewer is a malformed line
LogFields == 5

(***************************************************************************)
(* The universe the inputs are drawn from.                                 *)
(***************************************************************************)
\* repository identifiers, in the order sorted() gives them
RepoOrder == <<"r1", "r2">>
Repos == {RepoOrder[i] : i \in DOMAIN RepoOrder}

\* the characters of the model, in code-point order
CharOrder == <<" ", "%", "-", ".", "/", "0", "1", "2", "5", ":", "F", "T", "_", "a", "b", "c", "f", "l",
               "m", "t", "v", "x", "y">>
Chars == {CharOrder[i] : i \in DOMAIN CharOrder}

TagNames == {<<"v", "1">>, <<"v", "2">>}
BranchNames == {<<"f", "/", "x">>}
Kinds == {"tags", "branches"}

NamesOf(kind) == IF kind = "tags" THEN TagNames ELSE BranchNames

\* a commit of a tracked repository: its hash and its subject line
Cmt(h, s) == [commit |-> h, message |-> s]

\* the commit histories (oldest first) a ref can have; commit e has an empty subject
Histories ==
    { <<Cmt("a", "m"), Cmt("b", "m"), Cmt("c", "m")>>,
      <<Cmt("d", "m"), Cmt("e", "")>>,
      <<Cmt("a", "m"), Cmt("b", "m"), Cmt("c", "m"), Cmt("d", "m"), Cmt("e", ""),
        Cmt("f", "m")>> }

\* latest_commit of a ref whose git log printed nothing (JSON null)
NoCommit == "null"

VARIABLES
    tracked,    \* tracked_repos.list: the repositories the tracking run processes
    refs,       \* refs[r][kind]: ref name -> commit history, as the mirror of r has them
    worktree,   \* files of the tracking worktree: path -> content
    ledger,     \* commits of the tracking branch, oldest first; each holds its tree
    events,     \* files of the events branch: file name -> event
    doc,        \* changes_timeline.md as last written by the renderer
    lastSrc,    \* source state the last completed tracking run exported, or <<>>
    changes,    \* number of changes the environment has made
    probe,      \* the last call of a function made on its own: its arguments and result
    damaged,    \* persisted data that no longer parses: <<entry, path, line>>; line 0
                \* stands for the whole file
    runs,       \* runs[p]: where tracking run p, taken step by step, stands
    writer,     \* writer[path]: the step-by-step run that last wrote the worktree file
    clone,      \* the repository add_event.py runs in: its checked-out branch (head)
                \* and its local branches
    adding      \* where the add-event operation, taken step by step, stands

vars == <<tracked, refs, worktree, ledger, events, doc, lastSrc, changes, probe, damaged,
          runs, writer, clone, adding>>

(***************************************************************************)
(* Sequences and order.                                                    *)
(***************************************************************************)
Last(s) == s[Len(s)]

Reverse(s) == [i \in 1..Len(s) |-> s[Len(s) + 1 - i]]

Range(s) == {s[i] : i \in DOMAIN s}

\* s[-n:]
Tail_n(s, n) == IF Len(s) <= n THEN s ELSE SubSeq(s, Len(s) - n + 1, Len(s))

RepoRank(r) == CHOOSE i \in DOMAIN RepoOrder : RepoOrder[i] = r

CharCode(c) == CHOOSE i \in DOMAIN CharOrder : CharOrder[i] = c

\* Python's < on strings: lexicographic by code point
RECURSIVE StrLess(_, _)
StrLess(a, b) ==
    IF b = <<>> THEN FALSE
    ELSE IF a = <<>> THEN TRUE
    ELSE IF Head(a) # Head(b) THEN CharCode(Head(a)) < CharCode(Head(b))
    ELSE StrLess(Tail(a), Tail(b))

\* sorted(S) for a set of repository identifiers
RECURSIVE SortedRepos(_)
SortedRepos(S) ==
    IF S = {} THEN <<>>
    ELSE LET m == CHOOSE x \in S : \A y \in S : RepoRank(x) <= RepoRank(y)
         IN  <<m>> \o SortedRepos(S \ {m})

\* sorted(S) for a set of ref names
RECURSIVE SortedNames(_)
SortedNames(S) ==
    IF S = {} THEN <<>>
    ELSE LET m == CHOOSE x \in S : \A y \in S \ {x} : StrLess(x, y)
         IN  <<m>> \o SortedNames(S \ {m})

\* the orders in which a set can be listed
Perms(S) == {p \in [1..Cardinality(S) -> S] : Range(p) = S}

\* f with the entries of g written over it
Overlay(f, g) == [p \in DOMAIN f \cup DOMAIN g |-> IF p \in DOMAIN g THEN g[p] ELSE f[p]]

EmptyMap == [p \in {} |-> {}]

(***************************************************************************)
(* refname_utils.py: file names of the commit logs.                        *)
(***************************************************************************)
\* the safe characters with "%" among them (safe='%...')
AlwaysSafe_percent == Chars \ {" ", "/"}

\* characters urllib.parse.quote never encodes, and those named by safe=
AlwaysSafe == Chars \ {" ", "%", "/"}

\* "%XX" of a character that is not safe
PctHex(c) ==
    IF c = "/" THEN <<"%", "2", "F">>
    ELSE IF c = "%" THEN <<"%", "2", "5">>
    ELSE <<"%", "2", "0">>

RECURSIVE quote(_)
quote(s) ==
    IF s = <<>> THEN <<>>
    ELSE (IF Head(s) \in AlwaysSafe THEN <<Head(s)>> ELSE PctHex(Head(s))) \o quote(Tail(s))

safe_refname_to_filename(ref_name) == quote(ref_name) \o <<".", "t", "x", "t">>

\* the characters 0-9, a-f, A-F of the model
HexDigits == {"0", "1", "2", "5", "F", "a", "b", "c", "f"}

\* the character "%h1h2" stands for; "?" is a character outside the model's alphabet
PctChar(h1, h2) ==
    IF h1 = "2" /\ h2 \in {"F", "f"} THEN "/"
    ELSE IF h1 = "2" /\ h2 = "5" THEN "%"
    ELSE IF h1 = "2" /\ h2 = "0" THEN " "
    ELSE "?"

\* urllib.parse.unquote: every "%" followed by two hex digits is decoded, any other
\* "%" is kept
RECURSIVE unquote(_)
unquote(s) ==
    IF s = <<>> THEN <<>>
    ELSE IF Head(s) = "%" /\ Len(s) >= 3 /\ s[2] \in HexDigits /\ s[3] \in HexDigits
         THEN <<PctChar(s[2], s[3])>> \o unquote(SubSeq(s, 4, Len(s)))
    ELSE <<Head(s)>> \o unquote(Tail(s))

\* str.endswith
endswith(s, suffix) ==
    Len(s) >= Len(suffix) /\ SubSeq(s, Len(s) - Len(suffix) + 1, Len(s)) = suffix

filename_to_refname(filename) ==
    unquote(IF endswith(filename, <<".", "t", "x", "t">>)
            THEN SubSeq(filename, 1, Len(filename) - 4)
            ELSE filename)

\* paths of the tracking worktree
AllReposPath == <<"all-repos.json">>
AllTagsTxtPath == <<"all-tags.txt">>
AllTagsJsonPath == <<"all-tags.json">>
ManifestPath(repo_id, kind) == <<"repos", repo_id, kind \o "-manifest.json">>
RefFilePath(repo_id, kind, file) == <<"repos", repo_id, kind, file>>

\* branch_file_path / tag_file_path
ref_file_path(repo_id, kind, ref_name) ==
    RefFilePath(repo_id, kind, safe_refname_to_filename(ref_name))

(***************************************************************************)
(* track_refs.py: export of one ref.                                       *)
(***************************************************************************)
\* one line of git log --pretty=format:%H<sep>%ct<sep>%an<sep>%cn<sep>%s, as its fields
LogLine(c) == <<c.commit, "ct", "an", "cn", c.message>>

\* a line without the separators and empty fields that end it
RECURSIVE RStrip(_)
RStrip(l) ==
    IF l # <<>> /\ Last(l) = "" THEN RStrip(SubSeq(l, 1, Len(l) - 1)) ELSE l

\* run(): stdout.strip().  The separator \x1f is white space to str.strip, so the
\* stripped output loses the separators that end its last line.
run_git_log(history) ==
    [i \in 1..Len(history) |->
        IF i = Len(history) THEN RStrip(LogLine(history[i])) ELSE LogLine(history[i])]

\* the records written to the commit log: lines of fewer than 5 parts are skipped
RECURSIVE LogRecords(_)
LogRecords(lines) ==
    IF lines = <<>> THEN <<>>
    ELSE (IF Len(Head(lines)) < LogFields
          THEN <<>>
          ELSE <<[commit |-> Head(lines)[1], message |-> Head(lines)[5]]>>)
         \o LogRecords(Tail(lines))

\* export_ref_commits: the commit log written and the manifest entry of the ref
export_ref_commits(history, ref_name) ==
    LET commit_lines == run_git_log(history)
    IN  [log   |-> LogRecords(commit_lines),
         entry |-> [file |-> safe_refname_to_filename(ref_name),
                    latest_commit |-> IF commit_lines # <<>>
                                      THEN Last(commit_lines)[1]
                                      ELSE NoCommit]]

\* the commit-log files of one kind of one repository, written ref by ref in the
\* order git for-each-ref lists the refs
RECURSIVE ExportRefs(_, _, _, _)
ExportRefs(repo_id, kind, names, rf) ==
    IF names = <<>> THEN EmptyMap
    ELSE LET n == Head(names)
         IN  Overlay((ref_file_path(repo_id, kind, n) :> export_ref_commits(rf[n], n).log),
                     ExportRefs(repo_id, kind, Tail(names), rf))

\* the manifest of one kind of one repository
Manifest(kind, rf) == [n \in DOMAIN rf |-> export_ref_commits(rf[n], n).entry]

\* main: the loop body for one repository; every file it writes
ExportRepo(repo_id, rrefs) ==
    LET one(kind) ==
            Overlay(ExportRefs(repo_id, kind, SortedNames(DOMAIN rrefs[kind]), rrefs[kind]),
                    (ManifestPath(repo_id, kind) :> Manifest(kind, rrefs[kind])))
    IN  Overlay(one("branches"), one("tags"))

RECURSIVE ExportAll(_, _)
ExportAll(repos, rf) ==
    IF repos = <<>> THEN EmptyMap
    ELSE Overlay(ExportRepo(Head(repos), rf[Head(repos)]), ExportAll(Tail(repos), rf))

\* all_tags when a tag's set is assigned ({repo_id}) where the code adds to it: each
\* tag keeps the last repository that has it
AllTags_overwrite(repos, rf) ==
    [t \in UNION {DOMAIN rf[r]["tags"] : r \in repos} |->
        {Last(SortedRepos({r \in repos : t \in DOMAIN rf[r]["tags"]}))}]

\* all_tags after the loop: tag name -> set of repo ids
AllTags(repos, rf) ==
    [t \in UNION {DOMAIN rf[r]["tags"] : r \in repos} |->
        {r \in repos : t \in DOMAIN rf[r]["tags"]}]

\* write_all_repos_manifest
write_all_repos_manifest(repos) == (AllReposPath :> SortedRepos(repos))

\* write_all_tags_manifest: all-tags.txt is sorted; in all-tags.json the repos of a
\* tag are list(set), whose order the interpreter's string hashing decides: `order`
\* is the order this process lists each set in
write_all_tags_manifest(all_tags, order) ==
    Overlay((AllTagsTxtPath :> SortedNames(DOMAIN all_tags)),
            (AllTagsJsonPath :> [t \in DOMAIN all_tags |-> order[t]]))

\* the orders list(set) can give for the sets of all_tags
SetOrders(all_tags) ==
    {o \in [DOMAIN all_tags -> UNION {Perms(all_tags[t]) : t \in DOMAIN all_tags}] :
        \A t \in DOMAIN all_tags : Range(o[t]) = all_tags[t]}

(***************************************************************************)
(* track_refs.py: the tracking run.                                        *)
(***************************************************************************)
\* the tree of the commit ensure_tracking_worktree creates the branch with
EmptyTree == EmptyMap

\* a commit of the tracking branch
Entry(files) == [files |-> files]

\* git commit --amend in place of git commit: the snapshot replaces the last entry
commit_snapshot_amend(base, files) == SubSeq(base, 1, Len(base) - 1) \o <<Entry(files)>>

\* main: git add . ; git commit -m "Snapshot ..."
commit_snapshot(base, files) == Append(base, Entry(files))

\* has_changes: git status --porcelain of the worktree against its HEAD
has_changes(files, head) == files # head

\* main: the files the loop over the repositories and write_all_repos_manifest write
RunExports(repos, rf) ==
    Overlay(ExportAll(SortedRepos(repos), rf), write_all_repos_manifest(repos))

\* ensure_tracking_worktree: the ledger the run starts from
ensure_tracking_worktree(l) == IF l = <<>> THEN <<Entry(EmptyTree)>> ELSE l

\* main of track_refs.py, run to its end
TrackRun ==
    /\ Len(ensure_tracking_worktree(ledger)) < MaxLedger
    /\ LET base == ensure_tracking_worktree(ledger)
           exported == Overlay(worktree, RunExports(tracked, refs))
           all_tags == AllTags(tracked, refs)
       IN  \E order \in SetOrders(all_tags) :
          LET files == Overlay(exported, write_all_tags_manifest(all_tags, order))
          IN  /\ worktree' = files
              /\ ledger' = IF has_changes(files, Last(base).files)
                           THEN commit_snapshot(base, files)
                           ELSE base
    /\ lastSrc' = <<tracked, refs>>
    /\ UNCHANGED <<clone, adding, tracked, refs, events, doc, changes, probe, damaged,
                   runs, writer>>

(***************************************************************************)
(* The environment: the tracked-repo list and the refs of the repositories.*)
(***************************************************************************)
\* a ref of a tracked repository is created, or moved to another history
SetRef ==
    /\ changes < MaxChanges
    /\ \E r \in tracked, kind \in Kinds :
         \E n \in NamesOf(kind), h \in Histories :
            /\ n \in DOMAIN refs[r][kind] => refs[r][kind][n] # h
            /\ refs' = [refs EXCEPT ![r][kind] = Overlay(@, (n :> h))]
    /\ changes' = changes + 1
    /\ UNCHANGED <<clone, adding, tracked, worktree, ledger, events, doc, lastSrc,
                   probe, damaged, runs, writer>>

\* a ref of a tracked repository is deleted
DeleteRef ==
    /\ changes < MaxChanges
    /\ \E r \in tracked, kind \in Kinds :
         \E n \in DOMAIN refs[r][kind] :
            refs' = [refs EXCEPT ![r][kind] = [m \in DOMAIN @ \ {n} |-> @[m]]]
    /\ changes' = changes + 1
    /\ UNCHANGED <<clone, adding, tracked, worktree, ledger, events, doc, lastSrc,
                   probe, damaged, runs, writer>>

\* a repository is added to tracked_repos.list
TrackRepo ==
    /\ changes < MaxChanges
    /\ \E r \in Repos \ tracked : tracked' = tracked \cup {r}
    /\ changes' = changes + 1
    /\ UNCHANGED <<clone, adding, refs, worktree, ledger, events, doc, lastSrc,
                   probe, damaged, runs, writer>>

\* a repository is taken off tracked_repos.list
UntrackRepo ==
    /\ changes < MaxChanges
    /\ \E r \in tracked : tracked' = tracked \ {r}
    /\ changes' = changes + 1
    /\ UNCHANGED <<clone, adding, refs, worktree, ledger, events, doc, lastSrc,
                   probe, damaged, runs, writer>>

(***************************************************************************)
(* add_event.py                                                            *)
(***************************************************************************)
Titles == {<<"a", " ", "b">>, <<"a", "_", "b">>}
\* dates, in the one format the usage line documents (here month-day)
Dates == {<<"0", "1", "-", "0", "2">>, <<"0", "2", "-", "0", "1">>}

\* str.replace(old, new) for a one-character old
RECURSIVE replace(_, _, _)
replace(s, old, new) ==
    IF s = <<>> THEN <<>>
    ELSE (IF Head(s) = old THEN new ELSE <<Head(s)>>) \o replace(Tail(s), old, new)

\* save_event: the file name of an event
event_filename(title, date_str) ==
    replace(replace(replace(date_str, ":", <<>>), "-", <<>>), "T", <<"_">>)
        \o <<"_">> \o replace(title, " ", <<"_">>) \o <<".", "y", "a", "m", "l">>

\* save_event: the event written
save_event(title, date_str) == [title |-> title, date |-> date_str]

EVENTS_BRANCH == "events"

\* main of add_event.py, run to its end with every command succeeding: git commit
\* fails when the file written equals the one committed, and the run ends there
AddEvent ==
    /\ \E title \in Titles, date_str \in Dates :
         LET f == event_filename(title, date_str)
         IN  /\ f \in DOMAIN events \/ Cardinality(DOMAIN events) < MaxEvents
             /\ events' = Overlay(events, (f :> save_event(title, date_str)))
             /\ events' # events
    /\ clone' = [clone EXCEPT !.branches = @ \cup {EVENTS_BRANCH}]
    /\ UNCHANGED <<adding, tracked, refs, worktree, ledger, doc, lastSrc, changes, probe,
            damaged, runs, writer>>

(***************************************************************************)
(* add_event.py taken command by command: run() ends the process with      *)
(* sys.exit(1) at the first command that fails.                            *)
(***************************************************************************)
\* the branches a user of the repository has checked out when the operation starts
WorkBranches == {"main", "dev"}

InitRepo == [head |-> "main", branches |-> WorkBranches]

\* no add-event operation is under way; exit is the status the last one ended with
NotAdding(exit) ==
    [pc |-> "idle", exit |-> exit, original_branch |-> "", title |-> <<>>, date_str |-> <<>>]

get_current_branch(rp) == rp.head

\* run(): sys.exit(1) leaves the repository on the branch that is checked out
exit_failed(rp, original_branch) == rp

\* ensure_events_branch: the events branch is created as an orphan branch, or checked
\* out and pulled; checkout and pull are the outcomes of the two commands
ensure_events_branch(rp, checkout, pull) ==
    IF ~checkout THEN [exited |-> TRUE, repo |-> rp]
    ELSE LET on_events == [head |-> EVENTS_BRANCH, branches |-> rp.branches \cup {EVENTS_BRANCH}]
         IN  IF EVENTS_BRANCH \notin rp.branches THEN [exited |-> FALSE, repo |-> on_events]
             ELSE [exited |-> ~pull, repo |-> on_events]

\* main: original_branch = get_current_branch()
AddEventStart ==
    /\ adding.pc = "idle"
    /\ \E title \in Titles, date_str \in Dates :
         /\ \/ event_filename(title, date_str) \in DOMAIN events
            \/ Cardinality(DOMAIN events) < MaxEvents
         /\ adding' = [pc |-> "ensure", exit |-> 0, original_branch |-> get_current_branch(clone),
                       title |-> title, date_str |-> date_str]
    /\ UNCHANGED <<clone, tracked, refs, worktree, ledger, events, doc, lastSrc, changes, probe,
                   damaged, runs, writer>>

\* main: ensure_events_branch()
AddEventEnsureBranch ==
    /\ adding.pc = "ensure"
    /\ \E checkout \in BOOLEAN, pull \in BOOLEAN :
         LET out == ensure_events_branch(clone, checkout, pull)
         IN  IF out.exited
             THEN /\ clone' = exit_failed(out.repo, adding.original_branch)
                  /\ adding' = [NotAdding(1) EXCEPT !.original_branch = adding.original_branch]
             ELSE /\ clone' = out.repo
                  /\ adding' = [adding EXCEPT !.pc = "commit"]
    /\ UNCHANGED <<tracked, refs, worktree, ledger, events, doc, lastSrc, changes, probe,
                   damaged, runs, writer>>

\* main: save_event, git add, git commit; git commit fails when there is nothing to
\* commit, the file written being the one committed
AddEventCommit ==
    /\ adding.pc = "commit"
    /\ LET f == event_filename(adding.title, adding.date_str)
           written == Overlay(events, (f :> save_event(adding.title, adding.date_str)))
       IN  IF written = events
           THEN /\ clone' = exit_failed(clone, adding.original_branch)
                /\ adding' = [NotAdding(1) EXCEPT !.original_branch = adding.original_branch]
                /\ events' = events
           ELSE /\ clone' = clone
                /\ adding' = [adding EXCEPT !.pc = "push"]
                /\ events' = written
    /\ UNCHANGED <<tracked, refs, worktree, ledger, doc, lastSrc, changes, probe,
                   damaged, runs, writer>>

\* main: git push --set-upstream origin events
AddEventPush ==
    /\ adding.pc = "push"
    /\ \E push \in BOOLEAN :
         IF push
         THEN /\ clone' = clone
              /\ adding' = [adding EXCEPT !.pc = "return"]
         ELSE /\ clone' = exit_failed(clone, adding.original_branch)
              /\ adding' = [NotAdding(1) EXCEPT !.original_branch = adding.original_branch]
    /\ UNCHANGED <<tracked, refs, worktree, ledger, events, doc, lastSrc, changes, probe,
                   damaged, runs, writer>>

\* main: git checkout original_branch
AddEventReturn ==
    /\ adding.pc = "return"
    /\ \E checkout \in BOOLEAN :
         IF checkout
         THEN /\ clone' = [clone EXCEPT !.head = adding.original_branch]
              /\ adding' = [NotAdding(0) EXCEPT !.original_branch = adding.original_branch]
         ELSE /\ clone' = exit_failed(clone, adding.original_branch)
              /\ adding' = [NotAdding(1) EXCEPT !.original_branch = adding.original_branch]
    /\ UNCHANGED <<tracked, refs, worktree, ledger, events, doc, lastSrc, changes, probe,
                   damaged, runs, writer>>

\* the user checks out another branch between two operations
Checkout ==
    /\ adding.pc = "idle"
    /\ \E b \in clone.branches \ {clone.head} : clone' = [clone EXCEPT !.head = b]
    /\ UNCHANGED <<adding, tracked, refs, worktree, ledger, events, doc, lastSrc, changes,
                   probe, damaged, runs, writer>>

(***************************************************************************)
(* generate_changes.py: the report.  The document is a sequence of lines;  *)
(* a line keeps what the markdown line says: the kind of line, the ledger  *)
(* entry of its section, the block it is in (type: "repos", "global_tags", *)
(* "tag" or "branch"), and the repository, ref, commit and marker shown.   *)
(* An event line keeps the title as name and the date as commit.           *)
(***************************************************************************)
Line(kind, snap, repo, type, change, name, commit, prefix) ==
    [kind |-> kind, snap |-> snap, repo |-> repo, type |-> type, change |-> change,
     name |-> name, commit |-> commit, prefix |-> prefix]

RECURSIVE Flatten(_)
Flatten(ss) == IF ss = <<>> THEN <<>> ELSE Head(ss) \o Flatten(Tail(ss))

\* read_tracking_file followed by the caller's "parse if not empty, else default"
read_tracking_file(tree, rel_path, default) ==
    IF rel_path \in DOMAIN tree THEN tree[rel_path] ELSE default

\* load_events: the events in glob order, sorted by date, newest first (list.sort
\* is stable)
\* the same insertion with the comparison turned round (oldest first)
RECURSIVE InsertByDate_ascending(_, _)
InsertByDate_ascending(sorted, e) ==
    IF sorted = <<>> THEN <<e>>
    ELSE IF StrLess(e.date, Head(sorted).date) THEN <<e>> \o sorted
    ELSE <<Head(sorted)>> \o InsertByDate_ascending(Tail(sorted), e)

RECURSIVE InsertByDate(_, _)
InsertByDate(sorted, e) ==
    IF sorted = <<>> THEN <<e>>
    ELSE IF StrLess(Head(sorted).date, e.date) THEN <<e>> \o sorted
    ELSE <<Head(sorted)>> \o InsertByDate(Tail(sorted), e)

RECURSIVE SortByDateDesc(_)
SortByDateDesc(es) ==
    IF es = <<>> THEN <<>>
    ELSE InsertByDate(SortByDateDesc(SubSeq(es, 1, Len(es) - 1)), Last(es))

load_events(evs, glob) == SortByDateDesc([i \in DOMAIN glob |-> evs[glob[i]]])

\* format_commit: the marker column is "**prefix**", or "_" when prefix is empty
format_commit(snap, repo_id, type, change, name, commit, prefix) ==
    Line("commit", snap, repo_id, type, change, name, commit.commit,
         IF prefix # "" THEN "**" \o prefix \o "**" ELSE "_")

\* the first 5 records of a commit log in place of the last 5 (commits_json[:5])
Window_first(log) ==
    Reverse(SubSeq(log, 1, IF Len(log) <= WindowSize THEN Len(log) ELSE WindowSize))

\* the last 5 records of a commit log, newest first
Window(log) == Reverse(Tail_n(log, WindowSize))

\* the window of a new ref with every commit given the prefix "N"
format_recent_commits_marked(tree, snap, repo_id, type, name, ref_file_path_, prefix) ==
    LET last_commits == Window(read_tracking_file(tree, ref_file_path_, <<>>))
    IN  [i \in DOMAIN last_commits |->
            format_commit(snap, repo_id, type, "new", name, last_commits[i], "N")]

\* format_recent_commits: the window of a new ref, every commit with prefix ""
format_recent_commits(tree, snap, repo_id, type, name, ref_file_path_, prefix) ==
    LET last_commits == Window(read_tracking_file(tree, ref_file_path_, <<>>))
    IN  [i \in DOMAIN last_commits |->
            format_commit(snap, repo_id, type, "new", name, last_commits[i], prefix)]

\* the prefix with the membership test turned round
commit_prefix_inverted(commit, parent_hashes, current_hashes) ==
    IF parent_hashes \cap current_hashes = {} THEN "n"
    ELSE IF commit.commit \in parent_hashes THEN "N"
    ELSE "_"

\* the prefix without the test for windows that share no hash: a commit of a rewritten
\* history counts as new only next to one the parent window has
commit_prefix_under_report(commit, parent_hashes, current_hashes) ==
    IF commit.commit \notin parent_hashes /\ parent_hashes \cap current_hashes # {} THEN "N"
    ELSE "_"

\* the prefix that marks every commit of a window that overlaps the parent's new
commit_prefix_all_new(commit, parent_hashes, current_hashes) ==
    IF parent_hashes \cap current_hashes = {} THEN "n" ELSE "N"

\* the prefix of a commit of the current window of an updated ref
commit_prefix(commit, parent_hashes, current_hashes) ==
    IF parent_hashes \cap current_hashes = {} THEN "n"
    ELSE IF commit.commit \notin parent_hashes THEN "N"
    ELSE "_"

\* main: the commit lines of an updated ref
updated_ref_commits(cur, par, snap, repo_id, kind, type, name, current, parent) ==
    LET parent_commits ==
            Window(read_tracking_file(par, RefFilePath(repo_id, kind, parent[name].file), <<>>))
        current_commits ==
            Window(read_tracking_file(cur, RefFilePath(repo_id, kind, current[name].file), <<>>))
        parent_hashes == {parent_commits[i].commit : i \in DOMAIN parent_commits}
        current_hashes == {current_commits[i].commit : i \in DOMAIN current_commits}
    IN  [i \in DOMAIN current_commits |->
            format_commit(snap, repo_id, type, "changed", name, current_commits[i],
                          commit_prefix(current_commits[i], parent_hashes, current_hashes))]

\* every ref of the current manifest taken as new (the test on the parent left out)
new_refs_all(current, parent) == DOMAIN current

\* main: the refs of the current manifest that the parent manifest lacks
new_refs(current, parent) == DOMAIN current \ DOMAIN parent

\* the refs in both manifests, compared on "file" where the code compares latest_commit
changed_refs_by_file(current, parent) ==
    {n \in DOMAIN current \cap DOMAIN parent : parent[n].file # current[n].file}

\* the refs in both manifests, the parent's commit read under a key it lacks
changed_refs_missing_key(current, parent) ==
    {n \in DOMAIN current \cap DOMAIN parent : NoCommit # current[n].latest_commit}

\* main: the refs in both manifests whose latest_commit differs
changed_refs(current, parent) ==
    {n \in DOMAIN current \cap DOMAIN parent :
        parent[n].latest_commit # current[n].latest_commit}

\* main: the refs of the parent manifest that the current manifest lacks
removed_refs(current, parent) == DOMAIN parent \ DOMAIN current

\* main: the block "Tag Changes in repo" / "Branch Changes in repo"
RefChanges(cur, par, snap, repo_id, kind, type) ==
    LET current == read_tracking_file(cur, ManifestPath(repo_id, kind), EmptyMap)
        parent == read_tracking_file(par, ManifestPath(repo_id, kind), EmptyMap)
        new == SortedNames(new_refs(current, parent))
        changed == SortedNames(changed_refs(current, parent))
        removed == SortedNames(removed_refs(current, parent))
        L(k, change, name, commit) == Line(k, snap, repo_id, type, change, name, commit, "")
    IN  IF new = <<>> /\ changed = <<>> /\ removed = <<>> THEN <<>>
        ELSE <<L("ref_changes", "", <<>>, "")>>
             \o (IF new = <<>> THEN <<>>
                 ELSE <<L("heading", "new", <<>>, "")>>
                      \o Flatten([i \in DOMAIN new |->
                           <<L("ref", "new", new[i], "")>>
                           \o format_recent_commits(cur, snap, repo_id, type, new[i],
                                  RefFilePath(repo_id, kind, current[new[i]].file), "")]))
             \o (IF changed = <<>> THEN <<>>
                 ELSE <<L("heading", "changed", <<>>, "")>>
                      \o Flatten([i \in DOMAIN changed |->
                           <<L("ref", "changed", changed[i],
                               parent[changed[i]].latest_commit)>>
                           \o updated_ref_commits(cur, par, snap, repo_id, kind, type,
                                                  changed[i], current, parent)]))
             \o (IF removed = <<>> THEN <<>>
                 ELSE <<L("heading", "removed", <<>>, "")>>
                      \o [i \in DOMAIN removed |->
                           L("ref", "removed", removed[i], parent[removed[i]].latest_commit)])

\* main: the repositories whose tags and branches are diffed
all_repos(current_repos) == SortedRepos(Range(current_repos))

\* the difference taken the wrong way round
removed_repos_swapped(current_repos, parent_repos) ==
    Range(current_repos) \ Range(parent_repos)

\* no repository is taken as removed
removed_repos_none(current_repos, parent_repos) == {}

\* main: added and removed repositories
new_repos(current_repos, parent_repos) == Range(current_repos) \ Range(parent_repos)
removed_repos(current_repos, parent_repos) == Range(parent_repos) \ Range(current_repos)

\* main: the block "Repository Changes"
RepoChanges(cur, par, snap) ==
    LET current_repos == read_tracking_file(cur, AllReposPath, <<>>)
        parent_repos == read_tracking_file(par, AllReposPath, <<>>)
        new == SortedRepos(new_repos(current_repos, parent_repos))
        removed == SortedRepos(removed_repos(current_repos, parent_repos))
        L(k, change, repo) == Line(k, snap, repo, "repos", change, <<>>, "", "")
    IN  IF new = <<>> /\ removed = <<>> THEN <<>>
        ELSE <<L("repo_changes", "", "")>>
             \o (IF new = <<>> THEN <<>>
                 ELSE <<L("heading", "new", "")>>
                      \o [i \in DOMAIN new |-> L("repo", "new", new[i])])
             \o (IF removed = <<>> THEN <<>>
                 ELSE <<L("heading", "removed", "")>>
                      \o [i \in DOMAIN removed |-> L("repo", "removed", removed[i])])

\* main: the block "Global Tags Changes"
GlobalTagChanges(cur, par, snap) ==
    LET current_tags == Range(read_tracking_file(cur, AllTagsTxtPath, <<>>))
        parent_tags == Range(read_tracking_file(par, AllTagsTxtPath, <<>>))
        new == SortedNames(current_tags \ parent_tags)
        removed == SortedNames(parent_tags \ current_tags)
        L(k, change, name) == Line(k, snap, "", "global_tags", change, name, "", "")
    IN  IF new = <<>> /\ removed = <<>> THEN <<>>
        ELSE <<L("global_tags", "", <<>>)>>
             \o (IF new = <<>> THEN <<>>
                 ELSE <<L("heading", "new", <<>>)>>
                      \o [i \in DOMAIN new |-> L("global_tag", "new", new[i])])
             \o (IF removed = <<>> THEN <<>>
                 ELSE <<L("heading", "removed", <<>>)>>
                      \o [i \in DOMAIN removed |-> L("global_tag", "removed", removed[i])])

\* the section of one ledger entry, the entry without a parent diffed against an
\* empty tree like any other
Section_root_diffed(l, snap) ==
    LET cur == l[snap].files
        par == IF snap = 1 THEN EmptyTree ELSE l[snap - 1].files
        repos == all_repos(read_tracking_file(cur, AllReposPath, <<>>))
    IN  <<Line("snapshot", snap, "", "", "", <<>>, "", "")>>
        \o RepoChanges(cur, par, snap)
        \o GlobalTagChanges(cur, par, snap)
        \o Flatten([i \in DOMAIN repos |->
                      RefChanges(cur, par, snap, repos[i], "tags", "tag")])
        \o Flatten([i \in DOMAIN repos |->
                      RefChanges(cur, par, snap, repos[i], "branches", "branch")])

\* main: the section of one ledger entry
Section(l, snap) ==
    IF snap = 1
    THEN <<Line("root", snap, "", "", "", <<>>, "", "")>>
    ELSE LET cur == l[snap].files
             par == l[snap - 1].files
             repos == all_repos(read_tracking_file(cur, AllReposPath, <<>>))
         IN  <<Line("snapshot", snap, "", "", "", <<>>, "", "")>>
             \o RepoChanges(cur, par, snap)
             \o GlobalTagChanges(cur, par, snap)
             \o Flatten([i \in DOMAIN repos |->
                           RefChanges(cur, par, snap, repos[i], "tags", "tag")])
             \o Flatten([i \in DOMAIN repos |->
                           RefChanges(cur, par, snap, repos[i], "branches", "branch")])

\* the ledger entries in the order git log --reverse gave, oldest first
tracking_commits_oldest_first(l) == [i \in 1..Len(l) |-> i]

\* read_tracking_commits, reversed: the ledger entries newest first
tracking_commits_reversed(l) == [i \in 1..Len(l) |-> Len(l) + 1 - i]

\* the lines of a commit log up to the first that fails to parse (break where the
\* code has continue)
RECURSIVE parse_lines_break(_, _, _)
parse_lines_break(lines, bad, first) ==
    IF lines = <<>> \/ first \in bad THEN <<>>
    ELSE <<Head(lines)>> \o parse_lines_break(Tail(lines), bad, first + 1)

\* format_recent_commits, main: the lines of a commit log that json.loads accepts; a
\* line that raises JSONDecodeError is skipped.  `first` is the number of the first
\* of `lines`, `bad` the numbers of the lines that do not parse.
RECURSIVE parse_lines(_, _, _)
parse_lines(lines, bad, first) ==
    IF lines = <<>> THEN <<>>
    ELSE (IF first \in bad THEN <<>> ELSE <<Head(lines)>>)
         \o parse_lines(Tail(lines), bad, first + 1)

\* a path repos/<repo>/<kind>/<file> names a commit log
is_commit_log(rel_path) == Len(rel_path) = 4

\* main: what the parsers make of the files of a ledger entry.  json.loads of a
\* manifest or of all-repos.json that raises JSONDecodeError gives the default the
\* empty file gives, so the file is as good as absent; `bad` holds <<path, line>>.
parsed_files(files, bad) ==
    [p \in {q \in DOMAIN files : <<q, 0>> \notin bad} |->
        IF is_commit_log(p)
        THEN parse_lines(files[p], {k \in DOMAIN files[p] : <<p, k>> \in bad}, 1)
        ELSE files[p]]

\* the ledger as the renderer reads it
parsed_ledger(l, dmg) ==
    [i \in DOMAIN l |->
        [files |-> parsed_files(l[i].files, {<<d[2], d[3]>> : d \in {e \in dmg : e[1] = i}})]]

\* main: the heading of the document and the events, in the order load_events gave
EventLines(evs) ==
    <<Line("title", 0, "", "", "", <<>>, "", ""), Line("events", 0, "", "", "", <<>>, "", "")>>
    \o [i \in DOMAIN evs |-> Line("event", 0, "", "", "", evs[i].title, evs[i].date, "")]

\* main: the sections of the ledger entries, newest first
SectionLines(l) ==
    Flatten([i \in 1..Len(l) |-> Section(l, tracking_commits_reversed(l)[i])])

\* main of generate_changes.py; glob is the order Path.glob lists the event files in.
\* Without a tracking worktree read_tracking_commits fails and nothing is written.
Render ==
    /\ ledger # <<>>
    /\ LET sections == SectionLines(parsed_ledger(ledger, damaged))
       IN  \E glob \in Perms(DOMAIN events) :
              doc' = EventLines(load_events(events, glob)) \o sections
    /\ UNCHANGED <<clone, adding, tracked, refs, worktree, ledger, events, lastSrc,
                   changes, probe,
            damaged, runs, writer>>

(***************************************************************************)
(* generate_changes.py: the link resolver.  A URL is the sequence of its   *)
(* path segments after the base URL.                                       *)
(***************************************************************************)
\* Python's None
None == "None"

\* the commit link: "... if commit_hash else None" (None and "" are both false)
commit_link(parts, commit_hash) ==
    IF commit_hash \notin {None, ""} THEN parts \o <<commit_hash>> ELSE None

\* a resolver that gives no links for a platform it does not know
make_repo_links_known_only(base_url, platform, repo_id, ref_name, commit_hash, type) ==
    IF platform = "github"
    THEN [ref     |-> <<base_url, "tree", ref_name>>,
          tree    |-> <<base_url, "tree", ref_name>>,
          commits |-> <<base_url, "commits", ref_name>>,
          commit  |-> commit_link(<<base_url, "commit">>, commit_hash)]
    ELSE [ref |-> None, tree |-> None, commits |-> None, commit |-> None]

make_repo_links(base_url, platform, repo_id, ref_name, commit_hash, type) ==
    IF platform = "github"
    THEN [ref     |-> IF type = "branch" THEN <<base_url, "tree", ref_name>>
                      ELSE <<base_url, "releases", "tag", ref_name>>,
          tree    |-> <<base_url, "tree", ref_name>>,
          commits |-> <<base_url, "commits", ref_name>>,
          commit  |-> commit_link(<<base_url, "commit">>, commit_hash)]
    ELSE IF platform = "gitlab"
    THEN [ref     |-> IF type = "branch" THEN <<base_url, "-", "tree", ref_name>>
                      ELSE <<base_url, "-", "tags", ref_name>>,
          tree    |-> <<base_url, "-", "tree", ref_name>>,
          commits |-> <<base_url, "-", "commits", ref_name>>,
          commit  |-> commit_link(<<base_url, "-", "commit">>, commit_hash)]
    ELSE [ref     |-> <<base_url, "releases", "tag", ref_name>>,
          tree    |-> <<base_url, "tree", ref_name>>,
          commits |-> <<base_url, "commits", ref_name>>,
          commit  |-> commit_link(<<base_url, "commit">>, commit_hash)]

(***************************************************************************)
(* generate_changes.py: reading a file of a ledger entry by the entry's    *)
(* identity (its position in the ledger stands for its hash).              *)
(***************************************************************************)
\* run(["git", "show", "<snapshot_hash>:<rel_path>"]): the status git ends with and
\* what it printed
git_show(l, snapshot_hash, rel_path) ==
    IF snapshot_hash \in DOMAIN l /\ rel_path \in DOMAIN l[snapshot_hash].files
    THEN [returncode |-> 0, stdout |-> l[snapshot_hash].files[rel_path]]
    ELSE [returncode |-> 128, stdout |-> ""]

\* read_tracking_file by identity: run_cmd raises RuntimeError on a non-zero status,
\* read_tracking_file catches it and returns ""; nothing is raised to the caller
read_snapshot_file(l, snapshot_hash, rel_path) ==
    LET result == git_show(l, snapshot_hash, rel_path)
    IN  [raised  |-> None,
         content |-> IF result.returncode # 0 THEN "" ELSE result.stdout]

(***************************************************************************)
(* Calls of single functions, on inputs drawn from small sets.             *)
(***************************************************************************)
\* characters of the ref names tried: plain ones, the ones quote encodes, and the
\* ones an encoded name is made of
RefNameChars == {"%", "2", "F", "/", ".", "t", "x"}

RECURSIVE NamesUpTo(_)
NamesUpTo(n) ==
    IF n = 0 THEN {<<>>}
    ELSE NamesUpTo(n - 1)
         \cup {Append(w, c) : w \in {v \in NamesUpTo(n - 1) : Len(v) = n - 1},
                               c \in RefNameChars}

RefNames == NamesUpTo(MaxNameLen) \ {<<>>}

Platforms == {"github", "gitlab", "bitbucket", None}
RefTypes == {"tag", "branch"}
CommitHashes == {None, "", "c"}

\* refname_utils.py __main__: a ref name encoded and decoded
ProbeRefName ==
    /\ \E ref \in RefNames :
         probe' = [op |-> "refname", ref |-> ref,
                   f |-> safe_refname_to_filename(ref),
                   r |-> filename_to_refname(safe_refname_to_filename(ref))]
    /\ UNCHANGED <<clone, adding, tracked, refs, worktree, ledger, events, doc, lastSrc,
                   changes,
            damaged, runs, writer>>

\* a call of make_repo_links
ProbeLinks ==
    /\ \E platform \in Platforms, type \in RefTypes, commit_hash \in CommitHashes :
       \E ref_name \in TagNames \cup BranchNames :
         probe' = [op |-> "links", platform |-> platform, type |-> type,
                   ref_name |-> ref_name, commit_hash |-> commit_hash,
                   links |-> make_repo_links("base", platform, "r1", ref_name,
                                             commit_hash, type)]
    /\ UNCHANGED <<clone, adding, tracked, refs, worktree, ledger, events, doc, lastSrc,
                   changes,
            damaged, runs, writer>>

\* a call of read_tracking_file
ProbeRead ==
    /\ \E snapshot_hash \in 1..MaxLedger :
       \E rel_path \in {AllReposPath, AllTagsTxtPath, <<"repos", "r1", "tags-manifest.json">>,
                         <<"no-such-file">>} :
         probe' = [op |-> "read", snapshot_hash |-> snapshot_hash, rel_path |-> rel_path,
                   found |-> snapshot_hash \in DOMAIN ledger,
                   result |-> read_snapshot_file(ledger, snapshot_hash, rel_path)]
    /\ UNCHANGED <<clone, adding, tracked, refs, worktree, ledger, events, doc, lastSrc,
                   changes,
            damaged, runs, writer>>

(***************************************************************************)
(* The system.                                                             *)
(***************************************************************************)
\* the tracking runs that can be under way at a time
Procs == {1, 2}

\* a run that is not under way; exit and why tell how the last one ended
IdleRun(exit, why) ==
    [pc |-> "idle", exit |-> exit, why |-> why, todo |-> <<>>, repos |-> {},
     all_tags |-> EmptyMap, start |-> <<>>, conflict |-> FALSE]

(***************************************************************************)
(* track_refs.py: the tracking run taken step by step, so that a run can   *)
(* end before its commit and two runs can overlap.  A step is the work on  *)
(* one repository (fetch, export of every ref, the two manifests), or the  *)
(* end of the run (registries and commit).                                 *)
(***************************************************************************)
\* git log --reverse of a ref: the status git ends with and the lines it printed
git_log(history, ok) ==
    IF ok THEN [returncode |-> 0, stdout |-> [i \in DOMAIN history |-> LogLine(history[i])]]
    ELSE [returncode |-> 128, stdout |-> <<>>]

\* str.strip of the output: the last line loses the separators that end it
strip(lines) ==
    [i \in DOMAIN lines |-> IF i = Len(lines) THEN RStrip(lines[i]) ELSE lines[i]]

\* run() that goes on after a command that failed, with what the command printed
run_unchecked(result) == [exited |-> FALSE, stdout |-> strip(result.stdout)]

\* run(): sys.exit(1) when the command ends with a non-zero status, else its output
run(result) == [exited |-> result.returncode # 0, stdout |-> strip(result.stdout)]

\* export_ref_commits on the outcome of run(git log): nothing is written when run()
\* ended the process
export_ref_result(history, ref_name, ok) ==
    LET out == run(git_log(history, ok))
    IN  [exited |-> out.exited,
         log    |-> LogRecords(out.stdout),
         entry  |-> [file |-> safe_refname_to_filename(ref_name),
                     latest_commit |-> IF out.stdout # <<>> THEN Last(out.stdout)[1]
                                       ELSE NoCommit]]

\* main: the refs of a repository in the order the run exports them: the branches,
\* then the tags
RefOrder(rrefs) ==
    LET of(kind) == SortedNames(DOMAIN rrefs[kind])
    IN  [i \in DOMAIN of("branches") |-> <<"branches", of("branches")[i]>>]
        \o [i \in DOMAIN of("tags") |-> <<"tags", of("tags")[i]>>]

\* main: the loop body for one repository when git log fails for the ref `fail`
\* (<<>>: for none).  The files written: the commit logs up to the ref run() ended
\* the process at, or every commit log and the two manifests.
ExportRepoStep(repo_id, rrefs, fail) ==
    LET order == RefOrder(rrefs)
        result(k) == export_ref_result(rrefs[order[k][1]][order[k][2]], order[k][2],
                                       order[k] # fail)
        stops == {k \in DOMAIN order : result(k).exited}
        done == IF stops = {} THEN DOMAIN order
                ELSE {k \in DOMAIN order : \A j \in stops : k < j}
        path(k) == ref_file_path(repo_id, order[k][1], order[k][2])
        logs == [q \in {path(k) : k \in done} |->
                    result(CHOOSE k \in done : path(k) = q).log]
        manifest(kind) ==
            (ManifestPath(repo_id, kind) :>
                [n \in DOMAIN rrefs[kind] |->
                    result(CHOOSE k \in DOMAIN order : order[k] = <<kind, n>>).entry])
    IN  [exited |-> stops # {},
         files  |-> IF stops # {} THEN logs
                    ELSE Overlay(logs, Overlay(manifest("branches"), manifest("tags")))]

\* export_tag_commits: all_tags with the tags of one repository added
add_all_tags(all_tags, repo_id, tags) ==
    [t \in DOMAIN all_tags \cup tags |->
        (IF t \in DOMAIN all_tags THEN all_tags[t] ELSE {})
        \cup (IF t \in tags THEN {repo_id} ELSE {})]

\* the ledger when the process ends with sys.exit(1), left as it is, had the exit
\* path committed what is in the worktree
sys_exit_commits(l, files) == commit_snapshot(l, files)

\* the ledger when run() or an exception ends the process: nothing is committed
sys_exit(l, files) == l

\* the worktree with `files` written by run p
Written(p, files) == Overlay(writer, [q \in DOMAIN files |-> p])

\* main: ensure_tracking_worktree and read_tracked_repos
RunStart(p) ==
    /\ runs[p].pc = "idle"
    /\ Len(ensure_tracking_worktree(ledger)) < MaxLedger
    /\ ledger' = ensure_tracking_worktree(ledger)
    /\ runs' = [runs EXCEPT ![p] =
                  [pc |-> "export", exit |-> 0, why |-> "", todo |-> SortedRepos(tracked),
                   repos |-> tracked, all_tags |-> EmptyMap, start |-> ledger,
                   conflict |-> FALSE]]
    /\ UNCHANGED <<clone, adding, tracked, refs, worktree, events, doc, lastSrc, changes,
                   probe, damaged,
                   writer>>

\* main: the loop body for the next repository, every git log succeeding
RunExportRepo(p) ==
    /\ runs[p].pc = "export"
    /\ runs[p].todo # <<>>
    /\ LET repo_id == Head(runs[p].todo)
           step == ExportRepoStep(repo_id, refs[repo_id], <<>>)
       IN  /\ worktree' = Overlay(worktree, step.files)
           /\ writer' = Written(p, step.files)
           /\ runs' = [runs EXCEPT ![p].todo = Tail(@),
                                   ![p].all_tags =
                                       add_all_tags(@, repo_id, DOMAIN refs[repo_id]["tags"])]
    /\ UNCHANGED <<clone, adding, tracked, refs, ledger, events, doc, lastSrc, changes,
                   probe, damaged>>

\* main: the loop body for the next repository, git log failing for one of its refs
RunReadFails(p) ==
    /\ runs[p].pc = "export"
    /\ runs[p].todo # <<>>
    /\ LET repo_id == Head(runs[p].todo)
       IN  \E fail \in Range(RefOrder(refs[repo_id])) :
             LET step == ExportRepoStep(repo_id, refs[repo_id], fail)
             IN  /\ worktree' = Overlay(worktree, step.files)
                 /\ writer' = Written(p, step.files)
                 /\ IF step.exited
                    THEN /\ runs' = [runs EXCEPT ![p] = IdleRun(1, "read")]
                         /\ ledger' = sys_exit(ledger, worktree')
                    ELSE /\ runs' = [runs EXCEPT
                                       ![p].todo = Tail(@),
                                       ![p].all_tags =
                                           add_all_tags(@, repo_id,
                                                        DOMAIN refs[repo_id]["tags"])]
                         /\ ledger' = ledger
    /\ UNCHANGED <<clone, adding, tracked, refs, events, doc, lastSrc, changes, probe, damaged>>

\* the run ends between two steps: clone or fetch fails, or the process is killed
RunAbort(p) ==
    /\ runs[p].pc = "export"
    /\ runs' = [runs EXCEPT ![p] = IdleRun(1, "abort")]
    /\ ledger' = sys_exit(ledger, worktree)
    /\ UNCHANGED <<clone, adding, tracked, refs, worktree, events, doc, lastSrc, changes,
                   probe, damaged,
                   writer>>

\* main: the registries are written and git add or git commit fails
RunCommitFails(p) ==
    /\ runs[p].pc = "export"
    /\ runs[p].todo = <<>>
    /\ \E order \in SetOrders(runs[p].all_tags) :
         LET files == Overlay(write_all_repos_manifest(runs[p].repos),
                              write_all_tags_manifest(runs[p].all_tags, order))
         IN  /\ worktree' = Overlay(worktree, files)
             /\ writer' = Written(p, files)
             /\ has_changes(worktree', Last(ledger).files)
             /\ ledger' = sys_exit(ledger, worktree')
    /\ runs' = [runs EXCEPT ![p] = IdleRun(1, "commit")]
    /\ UNCHANGED <<clone, adding, tracked, refs, events, doc, lastSrc, changes, probe, damaged>>

\* main: the registries are written and the snapshot is committed if anything changed;
\* a run that is under way when another one commits is in conflict with it
RunFinish(p) ==
    /\ runs[p].pc = "export"
    /\ runs[p].todo = <<>>
    /\ Len(ledger) < MaxLedger
    /\ \E order \in SetOrders(runs[p].all_tags) :
         LET files == Overlay(write_all_repos_manifest(runs[p].repos),
                              write_all_tags_manifest(runs[p].all_tags, order))
         IN  /\ worktree' = Overlay(worktree, files)
             /\ writer' = Written(p, files)
             /\ ledger' = IF has_changes(worktree', Last(ledger).files)
                           THEN commit_snapshot(ledger, worktree')
                           ELSE ledger
    /\ runs' = [q \in Procs |->
                  IF q = p THEN IdleRun(0, "")
                  ELSE IF runs[q].pc = "export" THEN [runs[q] EXCEPT !.conflict = TRUE]
                  ELSE runs[q]]
    /\ UNCHANGED <<clone, adding, tracked, refs, events, doc, lastSrc, changes, probe, damaged>>

\* no function has been called on its own
NoProbe == [op |-> "none"]

\* the refs every repository starts with: one tag and one branch on the same history
InitHistory == <<Cmt("a", "m"), Cmt("b", "m"), Cmt("c", "m")>>

InitRefs ==
    [r \in Repos |-> [kind \in Kinds |->
        [n \in {CHOOSE m \in NamesOf(kind) : \A o \in NamesOf(kind) \ {m} : StrLess(m, o)}
            |-> InitHistory]]]

Init ==
    /\ tracked = {"r1"}
    /\ refs = InitRefs
    /\ worktree = EmptyTree
    /\ ledger = <<>>
    /\ events = EmptyMap
    /\ doc = <<>>
    /\ lastSrc = <<>>
    /\ changes = 0
    /\ probe = NoProbe
    /\ damaged = {}
    /\ runs = [p \in Procs |-> IdleRun(0, "")]
    /\ writer = EmptyMap
    /\ clone = InitRepo
    /\ adding = NotAdding(0)

Next ==
    \/ TrackRun
    \/ SetRef
    \/ DeleteRef
    \/ TrackRepo
    \/ UntrackRepo
    \/ AddEvent
    \/ Render

Spec == Init /\ [][Next]_vars

\* the tracker and the renderer over a fixed (empty) set of events
NextLedger ==
    \/ TrackRun
    \/ SetRef
    \/ DeleteRef
    \/ TrackRepo
    \/ UntrackRepo
    \/ Render

SpecLedger == Init /\ [][NextLedger]_vars

\* the files of an entry the renderer parses as JSON, and the lines of its commit logs
Parsed(files) ==
    {<<p, 0>> : p \in {q \in DOMAIN files : q = AllReposPath \/ Len(q) = 3}}
    \cup UNION {{<<p, k>> : k \in DOMAIN files[p]} : p \in {q \in DOMAIN files : is_commit_log(q)}}

\* a file or a commit-log line of a ledger entry is damaged: it no longer parses
CorruptEntry ==
    /\ Cardinality(damaged) < MaxDamage
    /\ \E i \in DOMAIN ledger : \E t \in Parsed(ledger[i].files) :
          /\ <<i, t[1], t[2]>> \notin damaged
          /\ damaged' = damaged \cup {<<i, t[1], t[2]>>}
    /\ UNCHANGED <<clone, adding, tracked, refs, worktree, ledger, events, doc, lastSrc,
                   changes, probe,
            runs, writer>>

\* the renderer over a ledger that gets damaged: the ledger two tracking runs leave,
\* the second after tag v2 was created and branch f/x moved
LongHistory ==
    <<Cmt("a", "m"), Cmt("b", "m"), Cmt("c", "m"), Cmt("d", "m"), Cmt("e", ""), Cmt("f", "m")>>

SecondRefs ==
    [InitRefs EXCEPT !["r1"]["tags"] = Overlay(@, (<<"v", "2">> :> LongHistory)),
                     !["r1"]["branches"] = (<<"f", "/", "x">> :> LongHistory)]

RunFiles(before, repos, rf) ==
    LET all_tags == AllTags(repos, rf)
    IN  Overlay(Overlay(before, RunExports(repos, rf)),
                write_all_tags_manifest(all_tags, CHOOSE o \in SetOrders(all_tags) : TRUE))

InitMalformed ==
    /\ tracked = {"r1"}
    /\ refs = SecondRefs
    /\ worktree = RunFiles(RunFiles(EmptyTree, {"r1"}, InitRefs), {"r1"}, SecondRefs)
    /\ ledger = commit_snapshot(
                    commit_snapshot(ensure_tracking_worktree(<<>>),
                                    RunFiles(EmptyTree, {"r1"}, InitRefs)),
                    worktree)
    /\ events = EmptyMap
    /\ doc = <<>>
    /\ lastSrc = <<tracked, refs>>
    /\ changes = MaxChanges
    /\ probe = NoProbe
    /\ damaged = {}
    /\ runs = [p \in Procs |-> IdleRun(0, "")]
    /\ writer = EmptyMap
    /\ clone = InitRepo
    /\ adding = NotAdding(0)

NextMalformed ==
    \/ CorruptEntry
    \/ Render

SpecMalformed == InitMalformed /\ [][NextMalformed]_vars

\* one tracking run at a time, which can end at any step
NextAbort ==
    \/ RunStart(1)
    \/ RunExportRepo(1)
    \/ RunReadFails(1)
    \/ RunAbort(1)
    \/ RunCommitFails(1)
    \/ RunFinish(1)
    \/ SetRef
    \/ TrackRepo

SpecAbort == Init /\ [][NextAbort]_vars

\* two tracking runs over the same worktree and ledger
NextConcurrent ==
    \/ \E p \in Procs : RunStart(p)
    \/ \E p \in Procs : RunExportRepo(p)
    \/ \E p \in Procs : RunFinish(p)
    \/ SetRef

SpecConcurrent == Init /\ [][NextConcurrent]_vars

\* single functions called on the state a first tracking run leaves
FirstRunFiles == RunFiles(EmptyTree, {"r1"}, InitRefs)

InitCalls ==
    /\ tracked = {"r1"}
    /\ refs = InitRefs
    /\ worktree = FirstRunFiles
    /\ ledger = commit_snapshot(ensure_tracking_worktree(<<>>), FirstRunFiles)
    /\ events = EmptyMap
    /\ doc = <<>>
    /\ lastSrc = <<tracked, refs>>
    /\ changes = 0
    /\ probe = NoProbe
    /\ damaged = {}
    /\ runs = [p \in Procs |-> IdleRun(0, "")]
    /\ writer = EmptyMap
    /\ clone = InitRepo
    /\ adding = NotAdding(0)

NextCalls ==
    \/ ProbeRefName
    \/ ProbeLinks
    \/ ProbeRead

SpecCalls == InitCalls /\ [][NextCalls]_vars

\* add-event operations, one at a time, any command of which can fail
NextEvents ==
    \/ AddEventStart
    \/ AddEventEnsureBranch
    \/ AddEventCommit
    \/ AddEventPush
    \/ AddEventReturn
    \/ Checkout

SpecEvents == Init /\ [][NextEvents]_vars

(***************************************************************************)
(* What a ledger entry holds, read off its files.                          *)
(***************************************************************************)
KindOf(type) == IF type = "tag" THEN "tags" ELSE "branches"

\* the repo set of entry i: the identifiers listed in its all-repos.json
RepoSetOf(i) ==
    IF AllReposPath \in DOMAIN ledger[i].files
    THEN Range(ledger[i].files[AllReposPath]) ELSE {}

\* the manifest of a repository in entry i; no file, no refs
ManifestOf(i, r, kind) ==
    IF ManifestPath(r, kind) \in DOMAIN ledger[i].files
    THEN ledger[i].files[ManifestPath(r, kind)] ELSE EmptyMap

\* the commit log of a ref in entry i, oldest first
LogOf(i, r, kind, n) ==
    IF ref_file_path(r, kind, n) \in DOMAIN ledger[i].files
    THEN ledger[i].files[ref_file_path(r, kind, n)] ELSE <<>>

\* the hashes of the last WindowSize records of a log
WindowHashes(log) == {log[j].commit : j \in {k \in DOMAIN log : k > Len(log) - WindowSize}}

(***************************************************************************)
(* What the document says.                                                 *)
(***************************************************************************)
DocLines == Range(doc)

\* the ledger entries the document has a transition section for
Transitions == {l.snap : l \in {m \in DocLines : m.kind = "snapshot"}}

\* the refs the section of entry i reports, for one repository and kind of ref
Reported(i, r, type, change) ==
    {l.name : l \in {m \in DocLines : m.kind = "ref" /\ m.snap = i /\ m.repo = r
                                       /\ m.type = type /\ m.change = change}}

\* the commit lines under one reported ref
CommitLines(i, r, type, change, n) ==
    {m \in DocLines : m.kind = "commit" /\ m.snap = i /\ m.repo = r /\ m.type = type
                      /\ m.change = change /\ m.name = n}

NewMarks == {"**n**", "**N**"}
UnchangedMark == "**_**"

(***************************************************************************)
(* C1  Idempotence: a tracking run that starts from the source state (the  *)
(* tracked-repo list, the refs and their histories) the last completed run *)
(* exported appends nothing to the ledger.  Only a tracking run changes    *)
(* the ledger, so the property is stated of every step.                    *)
(***************************************************************************)
C1_SecondRunAppendsNothing ==
    [][lastSrc = <<tracked, refs>> => ledger' = ledger]_vars

(***************************************************************************)
(* C2  Append-only ledger.  As claimed: every step keeps every entry at    *)
(* its position with its content, and adds at most one entry.              *)
(***************************************************************************)
KeepsEntries == \A i \in DOMAIN ledger : i \in DOMAIN ledger' /\ ledger'[i] = ledger[i]

C2_AtMostOneEntryPerRun ==
    [][KeepsEntries /\ Len(ledger') <= Len(ledger) + 1]_vars

\* C2 as amended: the run that creates the tracking branch adds the empty initial
\* commit and one snapshot entry; every other step adds at most one entry
C2_AppendOnly ==
    [][/\ KeepsEntries
       /\ \/ Len(ledger') <= Len(ledger) + 1
          \/ /\ ledger = <<>>
             /\ Len(ledger') = 2
             /\ ledger'[1] = Entry(EmptyTree)]_vars

\* tracking runs, an add-event operation and a render run have all happened
C2_Witness == Len(ledger) >= 3 /\ doc # <<>> /\ DOMAIN events # {}

(***************************************************************************)
(* C3  New-repo exclusion: the section of a transition has no tag line and *)
(* no branch line for a repository that is in the entry's repo set and not *)
(* in its parent's.                                                        *)
(***************************************************************************)
C3_NewRepoExcluded ==
    \A i \in Transitions : \A x \in RepoSetOf(i) \ RepoSetOf(i - 1) :
        ~ \E l \in DocLines : l.snap = i /\ l.repo = x /\ l.type \in {"tag", "branch"}

(***************************************************************************)
(* C4  Rewrite heuristic: under an updated ref the commits marked new are  *)
(* all of the current window when the current and the parent window share  *)
(* no hash, and otherwise exactly those whose hash is not in the parent    *)
(* window, the others being marked unchanged.                              *)
(***************************************************************************)
C4_RewriteHeuristic ==
    \A i \in Transitions, r \in Repos, type \in {"tag", "branch"} :
      \A n \in Reported(i, r, type, "changed") :
        LET h_cur == WindowHashes(LogOf(i, r, KindOf(type), n))
            h_par == WindowHashes(LogOf(i - 1, r, KindOf(type), n))
            lines == CommitLines(i, r, type, "changed", n)
            marked_new == {l.commit : l \in {m \in lines : m.prefix \in NewMarks}}
            marked_unchanged == {l.commit : l \in {m \in lines : m.prefix = UnchangedMark}}
        IN  /\ {l.commit : l \in lines} = h_cur
            /\ IF h_cur \cap h_par = {}
               THEN marked_new = h_cur /\ marked_unchanged = {}
               ELSE marked_new = h_cur \ h_par /\ marked_unchanged = h_cur \cap h_par

\* one updated ref whose windows overlap in part, another whose windows are disjoint
C4_Witness ==
    \E i \in Transitions, r \in Repos :
      /\ \E n \in Reported(i, r, "branch", "changed") :
           LET h_cur == WindowHashes(LogOf(i, r, "branches", n))
               h_par == WindowHashes(LogOf(i - 1, r, "branches", n))
           IN  h_cur \cap h_par # {} /\ h_cur \ h_par # {} /\ h_par \ h_cur # {}
      /\ \E n \in Reported(i, r, "tag", "changed") :
           LET h_cur == WindowHashes(LogOf(i, r, "tags", n))
               h_par == WindowHashes(LogOf(i - 1, r, "tags", n))
           IN  h_cur # {} /\ h_cur \cap h_par = {}

(***************************************************************************)
(* C5  Commits under a new ref.  As claimed: under a ref that is new in a  *)
(* transition of a repository present in both snapshots, a listed commit   *)
(* that no log of the repository's parent snapshot holds is marked new.    *)
(***************************************************************************)
\* the hashes the logs of one kind of a repository hold in entry i
HashesOf(i, r, kind) ==
    UNION {{LogOf(i, r, kind, n)[j].commit : j \in DOMAIN LogOf(i, r, kind, n)} :
              n \in DOMAIN ManifestOf(i, r, kind)}

SameContent(i) ==
    \A p \in (DOMAIN ledger[i].files \cup DOMAIN ledger[i - 1].files) \ {AllTagsJsonPath} :
        /\ p \in DOMAIN ledger[i].files
        /\ p \in DOMAIN ledger[i - 1].files
        /\ ledger[i].files[p] = ledger[i - 1].files[p]

C6_EmptyDiff ==
    \A i \in Transitions :
        SameContent(i) => \A l \in DocLines : l.snap = i => l.kind = "snapshot"

\* such a transition, between entries that hold repositories, tags and branches
C6_Witness ==
    \E i \in Transitions :
        /\ SameContent(i)
        /\ \E r \in RepoSetOf(i) :
              DOMAIN ManifestOf(i, r, "tags") # {} /\ DOMAIN ManifestOf(i, r, "branches") # {}

(***************************************************************************)
(* C7  Per-repo ref classification, for tags and for branches alike: in    *)
(* the section of a transition, for a repository of the entry's repo set,  *)
(* the refs reported new are those of the current manifest absent from the *)
(* parent manifest, those reported changed are the ones in both manifests  *)
(* with a different latest_commit, those reported removed are the ones of  *)
(* the parent manifest absent from the current one; a ref in both with the *)
(* same latest_commit is not reported.                                     *)
(***************************************************************************)
C7_RefClassification ==
    \A i \in Transitions : \A r \in RepoSetOf(i) : \A type \in {"tag", "branch"} :
        LET cur == ManifestOf(i, r, KindOf(type))
            par == ManifestOf(i - 1, r, KindOf(type))
            any == UNION {Reported(i, r, type, c) : c \in {"new", "changed", "removed"}}
        IN  /\ \A n \in DOMAIN cur :
                 /\ n \in Reported(i, r, type, "new") <=> n \notin DOMAIN par
                 /\ n \in Reported(i, r, type, "changed") <=>
                        (n \in DOMAIN par /\ par[n].latest_commit # cur[n].latest_commit)
                 /\ n \notin any <=>
                        (n \in DOMAIN par /\ par[n].latest_commit = cur[n].latest_commit)
            /\ \A n \in NamesOf(KindOf(type)) :
                 n \in Reported(i, r, type, "removed") <=>
                        (n \in DOMAIN par /\ n \notin DOMAIN cur)

\* the document reports a new ref, a changed ref and a removed ref, and leaves out
\* a ref that did not move
C7_Witness ==
    /\ \E i \in Transitions, r \in Repos, type \in {"tag", "branch"} :
          Reported(i, r, type, "new") # {}
    /\ \E i \in Transitions, r \in Repos, type \in {"tag", "branch"} :
          Reported(i, r, type, "changed") # {}
    /\ \E i \in Transitions : \E r \in RepoSetOf(i) : \E type \in {"tag", "branch"} :
          /\ Reported(i, r, type, "removed") # {}
          /\ \E t2 \in {"tag", "branch"} :
               \E n \in DOMAIN ManifestOf(i, r, KindOf(t2)) :
                  /\ n \in DOMAIN ManifestOf(i - 1, r, KindOf(t2))
                  /\ n \notin UNION {Reported(i, r, t2, c) : c \in {"new", "changed"}}

(***************************************************************************)
(* C8  Repository-set delta: the repositories a section reports added are  *)
(* the entry's repo set minus its parent's, those it reports removed are   *)
(* the parent's repo set minus the entry's, and no repository is both.     *)
(***************************************************************************)
ReportedRepos(i, change) ==
    {l.repo : l \in {m \in DocLines : m.kind = "repo" /\ m.snap = i /\ m.change = change}}

C8_RepoSetDelta ==
    \A i \in Transitions :
        /\ ReportedRepos(i, "new") = RepoSetOf(i) \ RepoSetOf(i - 1)
        /\ ReportedRepos(i, "removed") = RepoSetOf(i - 1) \ RepoSetOf(i)
        /\ ReportedRepos(i, "new") \cap ReportedRepos(i, "removed") = {}

\* a repository is added to a non-empty repo set, a repository is removed, and a
\* transition keeps the repo set
C8_Witness ==
    /\ \E i \in Transitions : ReportedRepos(i, "new") # {} /\ RepoSetOf(i - 1) # {}
    /\ \E i \in Transitions : ReportedRepos(i, "removed") # {} /\ RepoSetOf(i) # {}

(***************************************************************************)
(* C9  Report ordering: the document a render run writes has one section   *)
(* per ledger entry, the newest entry first and each next one older, the   *)
(* last being the root marker of the oldest entry; every line of a section *)
(* stands between its heading and the next.                                *)
(***************************************************************************)
IsSectionHead(l) == l.kind \in {"snapshot", "root"}

SectionHeads(d) == SelectSeq(d, IsSectionHead)

OrderedSections(d, l) ==
    LET heads == SectionHeads(d)
    IN  /\ Len(heads) = Len(l)
        /\ \A k \in DOMAIN heads :
              /\ heads[k].snap = Len(l) + 1 - k
              /\ heads[k].kind = IF k = Len(heads) THEN "root" ELSE "snapshot"
        /\ \A p \in 1..(Len(d) - 1) :
              d[p].snap > 0 => (d[p + 1].snap > 0 /\ d[p + 1].snap <= d[p].snap)
        /\ \A p \in 2..Len(d) :
              (d[p].snap > 0 /\ ~IsSectionHead(d[p])) => d[p - 1].snap = d[p].snap
        /\ d # <<>> /\ ~IsSectionHead(d[1]) /\ d[1].snap = 0

C9_ReportOrdering == [][doc' # doc => OrderedSections(doc', ledger)]_vars

\* a document of three sections or more, whose transitions report changes
C9_Witness ==
    /\ Len(SectionHeads(doc)) >= 3
    /\ \A i \in Transitions : \E l \in DocLines : l.snap = i /\ l.kind = "ref"

(***************************************************************************)
(* C10  Document layout: the events come first, newest date first, before  *)
(* any snapshot section; inside a section the blocks stand in the order    *)
(* repository changes, global tag changes, tag changes of all the          *)
(* repositories, branch changes of all the repositories.                   *)
(***************************************************************************)
Digit(c) == CHOOSE n \in 0..9 : <<"0", "1", "2", "3", "4", "5", "6", "7", "8", "9">>[n + 1] = c

\* the point in time a date MM-DD names
DateValue(date) ==
    ((Digit(date[1]) * 10 + Digit(date[2])) * 10 + Digit(date[4])) * 10 + Digit(date[5])

BlockRank(type) ==
    CHOOSE n \in 1..4 : <<"repos", "global_tags", "tag", "branch">>[n] = type

Layout(d, evs) ==
    LET ev_at == {p \in DOMAIN d : d[p].kind = "event"}
    IN  /\ \A p \in ev_at : \A q \in DOMAIN d : d[q].snap > 0 => p < q
        /\ \A p, q \in ev_at : p < q => DateValue(d[p].commit) >= DateValue(d[q].commit)
        /\ Cardinality(ev_at) = Cardinality(DOMAIN evs)
        /\ {[title |-> d[p].name, date |-> d[p].commit] : p \in ev_at}
              = {evs[f] : f \in DOMAIN evs}
        /\ \A p \in 2..Len(d) :
              /\ d[p].snap > 0 => (d[p].type = "" <=> IsSectionHead(d[p]))
              /\ (d[p].type # "" /\ d[p - 1].type # "") =>
                    (d[p - 1].snap = d[p].snap
                       /\ BlockRank(d[p - 1].type) <= BlockRank(d[p].type))

C10_DocumentLayout == [][doc' # doc => Layout(doc', events)]_vars

\* two events of different dates, and a section with all four kinds of block, the
\* tag and branch blocks for two repositories
C10_Witness ==
    /\ \E k, l \in DocLines : k.kind = "event" /\ l.kind = "event" /\ k.commit # l.commit
    /\ \E i \in Transitions :
          /\ \A t \in {"repos", "global_tags"} : \E l \in DocLines : l.snap = i /\ l.type = t
          /\ \A t \in {"tag", "branch"} : \A r \in Repos :
                \E l \in DocLines : l.snap = i /\ l.type = t /\ l.repo = r

(***************************************************************************)
(* C11  Root marker: a document holds, for the ledger entry without a      *)
(* parent, one placeholder line and nothing else: no snapshot heading and  *)
(* no repository, global-tag, tag or branch change; and no other entry is  *)
(* rendered as the placeholder.                                            *)
(***************************************************************************)
C11_RootMarker ==
    doc # <<>> =>
        /\ Cardinality({p \in DOMAIN doc : doc[p].snap = 1}) = 1
        /\ \A l \in DocLines : l.snap = 1 <=> l.kind = "root"
        /\ \A l \in DocLines : l.kind = "root" => l.type = "" /\ l.change = ""

\* a document whose second entry, diffed against the empty root, reports changes
C11_Witness ==
    /\ \E l \in DocLines : l.kind = "root"
    /\ \E l \in DocLines : l.snap = 2 /\ l.kind = "repo"
    /\ \E l \in DocLines : l.snap = 2 /\ l.kind = "ref"

(***************************************************************************)
(* C12  RefRecord invariant: in every manifest of every ledger entry, the  *)
(* latest_commit of a ref is the hash of the last record of the ref's      *)
(* commit log in that entry, and it is null exactly when the log is empty. *)
(***************************************************************************)
C12_RefRecordInvariant ==
    \A i \in DOMAIN ledger, r \in Repos, kind \in Kinds :
      \A n \in DOMAIN ManifestOf(i, r, kind) :
        LET log == LogOf(i, r, kind, n)
            latest == ManifestOf(i, r, kind)[n].latest_commit
        IN  /\ (latest = NoCommit) <=> (log = <<>>)
            /\ log # <<>> => latest = Last(log).commit

(***************************************************************************)
(* C13  Export completeness: after a tracking run, the commit log written  *)
(* for a ref of a tracked repository holds one record per commit of the    *)
(* history the run read for the ref, in the order of the history.          *)
(***************************************************************************)
C13_ExportComplete ==
    lastSrc # <<>> =>
        \A r \in lastSrc[1], kind \in Kinds : \A n \in DOMAIN lastSrc[2][r][kind] :
            /\ ref_file_path(r, kind, n) \in DOMAIN worktree
            /\ worktree[ref_file_path(r, kind, n)] = lastSrc[2][r][kind][n]

(***************************************************************************)
(* C17  A read from a snapshot identity the ledger does not hold fails     *)
(* with SnapshotNotFound; it yields no content.                            *)
(***************************************************************************)
C17_SnapshotNotFound ==
    (probe.op = "read" /\ ~probe.found) => probe.result.raised = "SnapshotNotFound"

C20_RefNameRoundTrip ==
    probe.op = "refname" =>
        /\ probe.r = probe.ref
        /\ \A other \in RefNames \ {probe.ref} : safe_refname_to_filename(other) # probe.f

\* a ref name that reads like an encoded one, and one that ends like a file name
C20_Witness ==
    /\ probe.op = "refname"
    /\ probe.ref \in {<<"%", "2", "F">>, <<"t", "x", "t">>}

(***************************************************************************)
(* C18  Malformed persisted data is not fatal to rendering: the document a *)
(* render run writes has a section for every ledger entry, and it is the   *)
(* document of the ledger with every damaged manifest and repo-set         *)
(* registry taken away and every damaged commit-log line left out.  A      *)
(* damaged manifest of the current entry reports no new and no changed     *)
(* ref; a damaged commit-log line is not listed.                           *)
(***************************************************************************)
\* the lines of a log that are not damaged, in their order
Undamaged(i, p) ==
    LET log == ledger[i].files[p]
        upto[k \in 0..Len(log)] ==
            IF k = 0 THEN <<>>
            ELSE IF <<i, p, k>> \in damaged THEN upto[k - 1]
            ELSE Append(upto[k - 1], log[k])
    IN  upto[Len(log)]

\* the ledger without what is damaged
WithoutDamaged ==
    [i \in DOMAIN ledger |->
        [files |-> [p \in {q \in DOMAIN ledger[i].files : <<i, q, 0>> \notin damaged} |->
                        IF Len(p) = 4 THEN Undamaged(i, p) ELSE ledger[i].files[p]]]]

C18_MalformedNotFatal ==
    [][doc' # doc =>
        /\ OrderedSections(doc', ledger)
        /\ doc' = EventLines(<<>>) \o SectionLines(WithoutDamaged)
        /\ \A d \in damaged :
              /\ (d[1] > 1 /\ Len(d[2]) = 3) =>
                    \A l \in Range(doc') :
                        (l.snap = d[1] /\ l.repo = d[2][2] /\ l.kind = "ref"
                           /\ ManifestPath(l.repo, KindOf(l.type)) = d[2])
                        => l.change = "removed"
              /\ (d[1] > 1 /\ d[3] > 0) =>
                    \A l \in Range(doc') :
                        (l.snap = d[1] /\ l.kind = "commit"
                           /\ ref_file_path(l.repo, KindOf(l.type), l.name) = d[2])
                        => l.commit # ledger[d[1]].files[d[2]][d[3]].commit]_vars

\* a document rendered from a ledger with a damaged manifest and a damaged line of a
\* commit log that the report lists
C18_Witness ==
    /\ doc = EventLines(<<>>) \o SectionLines(WithoutDamaged)
    /\ \E d \in damaged : d[1] > 1 /\ Len(d[2]) = 3
    /\ \E d \in damaged :
          /\ d[1] > 1 /\ d[3] > 0
          /\ \E l \in DocLines : l.snap = d[1] /\ l.kind = "ref" /\ l.change \in {"new", "changed"}
                                   /\ ref_file_path(l.repo, KindOf(l.type), l.name) = d[2]

(***************************************************************************)
(* Tracking runs taken step by step.                                       *)
(***************************************************************************)
\* this step ends run p with a non-zero exit
EndsInFailure(p) ==
    runs[p].pc = "export" /\ runs'[p].pc = "idle" /\ runs'[p].exit # 0

\* this step ends run p with exit 0
EndsInSuccess(p) ==
    runs[p].pc = "export" /\ runs'[p].pc = "idle" /\ runs'[p].exit = 0

\* in every entry of l, every ref of a manifest of a repository of the entry's repo
\* set has the commit log and the manifest entry the export of a history gives
WholeLogs(l) ==
    \A i \in DOMAIN l :
      \A r \in (IF AllReposPath \in DOMAIN l[i].files
                 THEN Range(l[i].files[AllReposPath]) ELSE {}) :
        \A kind \in Kinds :
          LET manifest == read_tracking_file(l[i].files, ManifestPath(r, kind), EmptyMap)
          IN  \A n \in DOMAIN manifest :
                \E h \in Histories :
                  /\ ref_file_path(r, kind, n) \in DOMAIN l[i].files
                  /\ l[i].files[ref_file_path(r, kind, n)] = export_ref_commits(h, n).log
                  /\ manifest[n] = export_ref_commits(h, n).entry

\* every entry of l but the first holds the registries, the two manifests of every
\* repository of its repo set and the commit log of every ref of these manifests
CompleteEntries(l) ==
    \A i \in 2..Len(l) :
      LET files == l[i].files
      IN  /\ {AllReposPath, AllTagsTxtPath, AllTagsJsonPath} \subseteq DOMAIN files
          /\ \A r \in Range(files[AllReposPath]) : \A kind \in Kinds :
                /\ ManifestPath(r, kind) \in DOMAIN files
                /\ \A n \in DOMAIN files[ManifestPath(r, kind)] :
                      ref_file_path(r, kind, n) \in DOMAIN files
          /\ Range(files[AllTagsTxtPath])
                = UNION {DOMAIN files[ManifestPath(r, "tags")] : r \in Range(files[AllReposPath])}

(***************************************************************************)
(* C14  A failed history read is fatal: the step in which git log fails    *)
(* for a ref ends the run with a non-zero exit and appends nothing, and no *)
(* ledger entry holds, for a ref of its manifests, a commit log other than *)
(* the export of a whole history.                                          *)
(***************************************************************************)
C14_FailedReadFatal ==
    [][/\ RunReadFails(1) => (EndsInFailure(1) /\ ledger' = ledger)
       /\ WholeLogs(ledger')]_vars

\* git log failed in a run that had written commit logs, after an earlier run had
\* committed a snapshot
C14_Witness ==
    /\ runs[1].pc = "idle" /\ runs[1].why = "read"
    /\ Len(ledger) >= 2
    /\ worktree # Last(ledger).files

(***************************************************************************)
(* C15  All-or-nothing append.  As claimed: a step that ends a run with a  *)
(* non-zero exit leaves the ledger with exactly the entries it had before  *)
(* the run.                                                                *)
(***************************************************************************)
C15_AbortLeavesLedger ==
    [][\A p \in Procs : EndsInFailure(p) => ledger' = runs[p].start]_vars

\* C15 as amended: the aborted run leaves the ledger as it was before the run, but for
\* the empty initial commit the run created the tracking branch with; and every entry
\* but that one is a complete snapshot
C15_AbortKeepsSnapshots ==
    [][/\ \A p \in Procs :
            EndsInFailure(p) => ledger' = ensure_tracking_worktree(runs[p].start)
       /\ CompleteEntries(ledger')]_vars

\* a run ended at its commit step, the worktree holding what it wrote, with snapshots
\* of earlier runs in the ledger
C15_Witness ==
    /\ runs[1].pc = "idle" /\ runs[1].why = "commit"
    /\ Len(ledger) >= 3
    /\ worktree # Last(ledger).files

(***************************************************************************)
(* C16  Single writer: of two tracking runs that overlap, one is ended as  *)
(* a conflict: no run completes that was under way when another run        *)
(* committed; and the entry a run commits holds, for the repositories of   *)
(* the run and for the registries, only files the run wrote itself.        *)
(***************************************************************************)
C16_SingleWriter ==
    [][\A p \in Procs :
         EndsInSuccess(p) =>
            /\ ~runs[p].conflict
            /\ ledger' # ledger =>
                  \A q \in DOMAIN Last(ledger').files :
                      (Len(q) = 1 \/ q[2] \in runs[p].repos) => writer'[q] = p]_vars

(***************************************************************************)
(* C21  Events are append-only: a step of an add-event operation that      *)
(* changes the events creates exactly one new event and leaves every event *)
(* created before it as it was, whatever title and date it is given, the   *)
(* title and date of an existing event included.                           *)
(***************************************************************************)
C21_EventsAppendOnly ==
    [][events' # events =>
          /\ \A f \in DOMAIN events : f \in DOMAIN events' /\ events'[f] = events[f]
          /\ Cardinality(DOMAIN events') = Cardinality(DOMAIN events) + 1]_vars

(***************************************************************************)
(* C30  When an add-event operation ends, with success or at a command     *)
(* that failed, the branch checked out is the one that was checked out     *)
(* when the operation started.                                             *)
(***************************************************************************)
C30_BranchRestored ==
    [][(adding.pc # "idle" /\ adding'.pc = "idle") =>
          clone'.head = adding.original_branch]_vars

(***************************************************************************)
(* C22  Every snapshot is self-contained: the manifests and commit logs of *)
(* a ledger entry are exactly those of the repositories of the entry's     *)
(* repo set and of the refs their manifests list (the refs that existed    *)
(* when the run captured them); no file is left from an earlier snapshot   *)
(* for a repository or a ref that no longer exists.                        *)
(***************************************************************************)
\* the manifests and commit logs an entry with this repo set and these manifests holds
OwnPaths(i) ==
    UNION {{ManifestPath(r, kind) : kind \in Kinds} : r \in RepoSetOf(i)}
    \cup UNION {UNION {{RefFilePath(r, kind, ManifestOf(i, r, kind)[n].file) :
                            n \in DOMAIN ManifestOf(i, r, kind)} : kind \in Kinds} :
                    r \in RepoSetOf(i)}

C22_SelfContained ==
    \A i \in DOMAIN ledger :
        {p \in DOMAIN ledger[i].files : Len(p) >= 3} = OwnPaths(i)

(***************************************************************************)
(* C23  The ledger append of a tracking run comes after its exports.  As   *)
(* claimed: a step adds an entry to the ledger only when the run has       *)
(* exported every repository it tracks, and the entry holds the manifests  *)
(* of each of them and the two registries the run wrote.                   *)
(***************************************************************************)
\* run p has no export pending, and entry e holds what it exported and its registries
ExportsDone(p, e) ==
    /\ runs[p].pc = "export"
    /\ runs[p].todo = <<>>
    /\ \A r \in runs[p].repos : \A kind \in Kinds : ManifestPath(r, kind) \in DOMAIN e.files
    /\ AllReposPath \in DOMAIN e.files
    /\ e.files[AllReposPath] = SortedRepos(runs[p].repos)
    /\ AllTagsTxtPath \in DOMAIN e.files
    /\ e.files[AllTagsTxtPath] = SortedNames(DOMAIN runs[p].all_tags)
    /\ AllTagsJsonPath \in DOMAIN e.files
    /\ DOMAIN e.files[AllTagsJsonPath] = DOMAIN runs[p].all_tags

C23_AppendAfterExports ==
    [][Len(ledger') > Len(ledger) => ExportsDone(1, Last(ledger'))]_vars

\* C23 as amended: the first run creates the tracking branch with its empty initial
\* commit before it exports anything; every other entry is added after the exports
\* and the registries of the run
C23_SnapshotAfterExports ==
    [][Len(ledger') > Len(ledger) =>
          \/ ledger = <<>> /\ ledger' = <<Entry(EmptyTree)>> /\ runs[1].pc = "idle"
          \/ ExportsDone(1, Last(ledger'))]_vars

\* a run that exported two repositories has ended with its snapshot in the ledger
C23_Witness ==
    /\ runs[1] = IdleRun(0, "")
    /\ Len(ledger) >= 2
    /\ RepoSetOf(Len(ledger)) = Repos
    /\ \A r \in Repos : ManifestPath(r, "tags") \in DOMAIN Last(ledger).files

(***************************************************************************)
(* C24  The commit heuristic over-reports and never under-reports: under a *)
(* changed ref a listed commit is marked unchanged only if its hash is in  *)
(* the parent window, and every commit of the current window whose hash is *)
(* not in the parent window is listed and marked new, whether the windows  *)
(* overlap or not.                                                         *)
(***************************************************************************)
C24_OverReports ==
    \A i \in Transitions, r \in Repos, type \in {"tag", "branch"} :
      \A n \in Reported(i, r, type, "changed") :
        LET h_par == WindowHashes(LogOf(i - 1, r, KindOf(type), n))
            h_cur == WindowHashes(LogOf(i, r, KindOf(type), n))
            lines == CommitLines(i, r, type, "changed", n)
        IN  /\ \A l \in lines : l.prefix = UnchangedMark => l.commit \in h_par
            /\ \A l \in lines : l.commit \notin h_par => l.prefix \in NewMarks
            /\ \A h \in h_cur \ h_par : \E l \in lines : l.commit = h

\* the document marks commits of one changed ref new next to unchanged ones, and
\* marks every commit of another, whose history was rewritten, new
C24_Witness ==
    /\ \E l \in DocLines, m \in DocLines :
          /\ l.kind = "commit" /\ l.change = "changed" /\ l.prefix = "**N**"
          /\ m.kind = "commit" /\ m.change = "changed" /\ m.prefix = UnchangedMark
          /\ <<m.snap, m.repo, m.type, m.name>> = <<l.snap, l.repo, l.type, l.name>>
    /\ \E l \in DocLines : l.kind = "commit" /\ l.change = "changed" /\ l.prefix = "**n**"

(***************************************************************************)
(* C25  Window: under every new or changed ref the document lists the last *)
(* min(5, n) records of the ref's current commit log of n records, the     *)
(* newest first, and nothing else; the marks of a changed ref are those of *)
(* a comparison with the last min(5, m) records of the parent's log of m   *)
(* records.                                                                *)
(***************************************************************************)
Min(a, b) == IF a <= b THEN a ELSE b

\* the hashes of the last min(5, n) records of a log, newest first
LastRecords(log) == [k \in 1..Min(WindowSize, Len(log)) |-> log[Len(log) + 1 - k].commit]

\* the hashes of the commit lines under a reported ref, in the order of the document
ListedCommits(i, r, type, change, n) ==
    LET under(l) == l \in CommitLines(i, r, type, change, n)
        lines == SelectSeq(doc, under)
    IN  [k \in DOMAIN lines |-> lines[k].commit]

C25_Window ==
    \A i \in Transitions, r \in Repos, type \in {"tag", "branch"} :
      /\ \A change \in {"new", "changed"} : \A n \in Reported(i, r, type, change) :
            ListedCommits(i, r, type, change, n) = LastRecords(LogOf(i, r, KindOf(type), n))
      /\ \A n \in Reported(i, r, type, "changed") :
            LET w_cur == Range(LastRecords(LogOf(i, r, KindOf(type), n)))
                w_par == Range(LastRecords(LogOf(i - 1, r, KindOf(type), n)))
            IN  \A l \in CommitLines(i, r, type, "changed", n) :
                   l.prefix = UnchangedMark <=>
                       (w_cur \cap w_par # {} /\ l.commit \in w_par)

\* a changed ref whose current log has more than 5 records, and a changed ref whose
\* parent log has more than 5 records, the oldest of which is listed and marked new
\* next to commits marked unchanged
C25_Witness ==
    /\ \E i \in Transitions, r \in Repos, type \in {"tag", "branch"} :
          \E n \in Reported(i, r, type, "changed") :
             Len(LogOf(i, r, KindOf(type), n)) > WindowSize
    /\ \E i \in Transitions, r \in Repos, type \in {"tag", "branch"} :
          \E n \in Reported(i, r, type, "changed") :
             LET par == LogOf(i - 1, r, KindOf(type), n)
                 lines == CommitLines(i, r, type, "changed", n)
             IN  /\ Len(par) > WindowSize
                 /\ \E l \in lines : l.commit = par[1].commit /\ l.prefix = "**N**"
                 /\ \E l \in lines : l.prefix = UnchangedMark

(***************************************************************************)
(* C26  Fast-forward exactness: when the current log of a changed ref is   *)
(* the parent's log, not empty, followed by one or more commits whose      *)
(* hashes the parent's log does not hold, the commits marked new are the   *)
(* appended commits that lie in the current window, and no commit of the   *)
(* parent's log is marked new.                                             *)
(***************************************************************************)
HashesIn(log) == {log[k].commit : k \in DOMAIN log}

\* cur is par followed by at least one commit, each with a hash par does not hold
FastForward(par, cur) ==
    /\ par # <<>>
    /\ Len(cur) > Len(par)
    /\ SubSeq(cur, 1, Len(par)) = par
    /\ \A k \in (Len(par) + 1)..Len(cur) : cur[k].commit \notin HashesIn(par)

\* the hashes of the commits cur appends to par
Appended(par, cur) == {cur[k].commit : k \in (Len(par) + 1)..Len(cur)}

C26_FastForwardExact ==
    \A i \in Transitions, r \in Repos, type \in {"tag", "branch"} :
      \A n \in Reported(i, r, type, "changed") :
        LET cur == LogOf(i, r, KindOf(type), n)
            par == LogOf(i - 1, r, KindOf(type), n)
            lines == CommitLines(i, r, type, "changed", n)
            marked_new == {l.commit : l \in {m \in lines : m.prefix \in NewMarks}}
        IN  FastForward(par, cur) =>
                /\ marked_new = Appended(par, cur) \cap WindowHashes(cur)
                /\ marked_new \cap HashesIn(par) = {}

\* a ref moved forward by fewer commits than the window holds: the window lists
\* appended commits and commits of the parent's log
C26_Witness ==
    \E i \in Transitions, r \in Repos, type \in {"tag", "branch"} :
      \E n \in Reported(i, r, type, "changed") :
        LET cur == LogOf(i, r, KindOf(type), n)
            par == LogOf(i - 1, r, KindOf(type), n)
        IN  /\ FastForward(par, cur)
            /\ WindowHashes(cur) \cap HashesIn(par) # {}
            /\ \E l \in CommitLines(i, r, type, "changed", n) : l.prefix = "**N**"

(***************************************************************************)
(* C27  For every repository diffed in a transition, and for tags and for  *)
(* branches, the refs reported new, changed and removed are pairwise       *)
(* disjoint, no ref is reported twice, and every ref of the current or the *)
(* parent manifest is in exactly one of new, changed, removed and          *)
(* unchanged (in both manifests with the same latest_commit).              *)
(***************************************************************************)
\* the refs of one class in the transition to entry i
RefClass(i, r, type, class) ==
    IF class = "unchanged"
    THEN LET cur == ManifestOf(i, r, KindOf(type))
             par == ManifestOf(i - 1, r, KindOf(type))
         IN  {n \in DOMAIN cur \cap DOMAIN par : cur[n].latest_commit = par[n].latest_commit}
    ELSE Reported(i, r, type, class)

RefClasses == {"new", "changed", "removed", "unchanged"}

\* the number of ref lines the section of entry i has for one repository and type
RefLineCount(i, r, type) ==
    LET is_ref(l) == l.kind = "ref" /\ l.snap = i /\ l.repo = r /\ l.type = type
    IN  Len(SelectSeq(doc, is_ref))

C27_DisjointClasses ==
    \A i \in Transitions : \A r \in RepoSetOf(i) : \A type \in {"tag", "branch"} :
        /\ \A c \in RefClasses : \A d \in RefClasses \ {c} :
               RefClass(i, r, type, c) \cap RefClass(i, r, type, d) = {}
        /\ \A n \in DOMAIN ManifestOf(i, r, KindOf(type))
                    \cup DOMAIN ManifestOf(i - 1, r, KindOf(type)) :
               Cardinality({c \in RefClasses : n \in RefClass(i, r, type, c)}) = 1
        /\ RefLineCount(i, r, type) =
               Cardinality(UNION {Reported(i, r, type, c) : c \in {"new", "changed", "removed"}})

\* one transition of a repository has a new ref, a changed ref and an unchanged ref
C27_Witness ==
    \E i \in Transitions : \E r \in RepoSetOf(i) :
        /\ \E type \in {"tag", "branch"} : RefClass(i, r, type, "new") # {}
        /\ \E type \in {"tag", "branch"} : RefClass(i, r, type, "changed") # {}
        /\ \E type \in {"tag", "branch"} : RefClass(i, r, type, "unchanged") # {}

(***************************************************************************)
(* C28  Global tags: in every ledger entry the global tag list             *)
(* (all-tags.txt) holds, once each, the tag names of the tags manifests of *)
(* the repositories of the entry's repo set, and the tag-to-repos map      *)
(* (all-tags.json) lists for each of these tags the repositories whose     *)
(* tags manifest holds it, once each, and no other.                        *)
(***************************************************************************)
\* all-tags.txt of entry i, as a list
TagListOf(i) ==
    IF AllTagsTxtPath \in DOMAIN ledger[i].files THEN ledger[i].files[AllTagsTxtPath] ELSE <<>>

\* all-tags.json of entry i
TagReposOf(i) ==
    IF AllTagsJsonPath \in DOMAIN ledger[i].files THEN ledger[i].files[AllTagsJsonPath]
    ELSE EmptyMap

C28_GlobalTags ==
    \A i \in DOMAIN ledger :
        LET tags_of(r) == DOMAIN ManifestOf(i, r, "tags")
            having(t) == {r \in RepoSetOf(i) : t \in tags_of(r)}
        IN  /\ Range(TagListOf(i)) = UNION {tags_of(r) : r \in RepoSetOf(i)}
            /\ Len(TagListOf(i)) = Cardinality(Range(TagListOf(i)))
            /\ DOMAIN TagReposOf(i) = Range(TagListOf(i))
            /\ \A t \in DOMAIN TagReposOf(i) :
                   /\ Range(TagReposOf(i)[t]) = having(t)
                   /\ Len(TagReposOf(i)[t]) = Cardinality(having(t))

\* an entry of two repositories, with a tag both have and a tag only one has
C28_Witness ==
    \E i \in DOMAIN ledger :
        /\ RepoSetOf(i) = Repos
        /\ \E t \in Range(TagListOf(i)) : Range(TagReposOf(i)[t]) = Repos
        /\ \E t \in Range(TagListOf(i)) : Cardinality(Range(TagReposOf(i)[t])) = 1

(***************************************************************************)
(* C29  Tag and branch deltas are reported only for repositories of both   *)
(* snapshots: a repository of the parent's repo set that the entry's repo  *)
(* set lacks is listed under the removed repositories of the transition,   *)
(* and the section has no tag or branch line for it, not even for a        *)
(* removed ref.                                                            *)
(***************************************************************************)
C29_RemovedRepoNoDeltas ==
    \A i \in Transitions : \A x \in RepoSetOf(i - 1) \ RepoSetOf(i) :
        /\ x \in ReportedRepos(i, "removed")
        /\ \A l \in DocLines : (l.snap = i /\ l.repo = x) => l.type = "repos"

\* the document has the transition that removes a repository whose manifests in the
\* parent entry list a tag and a branch
C29_Witness ==
    \E i \in Transitions : \E x \in RepoSetOf(i - 1) \ RepoSetOf(i) :
        /\ DOMAIN ManifestOf(i - 1, x, "tags") # {}
        /\ DOMAIN ManifestOf(i - 1, x, "branches") # {}
        /\ \E l \in DocLines : l.snap = i /\ l.repo = x /\ l.kind = "repo"

====
